---- MODULE Spec2Model ----
(***************************************************************************)
(* A model of argh::parser (src/argh.h, lines 71-326): the parse loop, the *)
(* registration of parameter names and the accessors.                      *)
(*                                                                         *)
(* A std::string is a sequence of one-character strings, so that the code  *)
(* that looks inside a token (is_number, trim_leading_dashes, find('='))   *)
(* is computed character by character.  Source indices are 0-based and are *)
(* kept 0-based in the variable i; sequences are read at i + 1.            *)
(***************************************************************************)
EXTENDS Integers, Sequences, FiniteSets, Bags, TLC

VARIABLES
    args_,              \* std::vector<std::string> args_
    params_,            \* std::map<std::string, std::string> params_
    pos_args_,          \* std::vector<std::string> pos_args_
    flags_,             \* std::multiset<std::string> flags_
    registeredParams_,  \* std::set<std::string> registeredParams_
    mode,               \* the mode argument of the running / last parse call
    i,                  \* the loop index of parse
    pc,                 \* "idle", "loop" (inside parse), "done", "threw" (an
                        \* exception left parse), "aborted" (failed assertion)
    ret,                \* the last accessor call and what it returned
    stdlib              \* the standard library the program is built with

vars ==
    <<args_, params_, pos_args_, flags_, registeredParams_, mode, i, pc, ret, stdlib>>

(***************************************************************************)
(* Bounds of the model.                                                    *)
(***************************************************************************)
MaxArgs == 3        \* longest argument vector given to parse
MaxQueryArgs == 2   \* longest argument vector in the accessor specification
MaxDashes == 3      \* most leading dashes put before a queried name

(***************************************************************************)
(* enum Mode                                                               *)
(***************************************************************************)
PREFER_FLAG_FOR_UNREG_OPTION == 1
PREFER_PARAM_FOR_UNREG_OPTION == 2
NO_SPLIT_ON_EQUALSIGN == 4
SINGLE_DASH_IS_MULTIFLAG == 8

Modes == 0 .. 15

\* mode & bit, for a bit that is a power of two
HasBit(m, bit) == (m \div bit) % 2 = 1

(***************************************************************************)
(* Strings.                                                                *)
(***************************************************************************)
Dash == "-"
Equals == "="
Digits == {"0", "1", "2", "3", "4", "5", "6", "7", "8", "9"}
Whitespace == {" "}

\* the tokens an argument vector is made of
T_a == <<"a">>
T_m1 == <<"-", "1">>
T_x == <<"-", "x">>
T_xx == <<"-", "-", "x">>
T_xf == <<"-", "x", "f">>
T_xeqa == <<"-", "x", "=", "a">>
T_dash == <<"-">>

Tokens == {T_a, T_m1, T_x, T_xx, T_xf, T_xeqa, T_dash}

RECURSIVE SeqsUpTo(_, _)
SeqsUpTo(S, n) ==
    IF n = 0 THEN {<<>>}
    ELSE LET shorter == SeqsUpTo(S, n - 1)
         IN  shorter \cup {Append(s, t) : s \in {u \in shorter : Len(u) = n - 1}, t \in S}

Argvs == SeqsUpTo(Tokens, MaxArgs)

\* the names handed to add_param
RegNames == {<<"x">>, <<"-", "-", "x">>, <<"-", "f">>, <<"x", "=", "a">>}

\* the argument vectors of the specification of negative numbers
T_m0 == <<"-", "0">>
T_m04 == <<"-", "0", ".", "4">>
T_m1e6 == <<"-", "1", "e", "6">>
T_m13em2 == <<"-", "1", ".", "3", "e", "-", "2">>

NumberTokens == {T_m1, T_m0, T_m04, T_m1e6, T_m13em2, T_x, T_a}
NumberArgvs == SeqsUpTo(NumberTokens, MaxArgs)

\* the argument vectors with empty and dash-only tokens
T_empty == <<>>

EdgeTokens == {T_empty, T_dash, T_x, T_a}
EdgeArgvs == SeqsUpTo(EdgeTokens, MaxArgs)

\* the argument vectors that give one parameter name several times
T_xeq1 == <<"-", "x", "=", "1">>

RepeatTokens == {T_x, T_a, T_m1, T_xeqa, T_xeq1}
RepeatArgvs == SeqsUpTo(RepeatTokens, MaxArgs)

\* the argument vectors and registered names of the accessor specification
QueryTokens == {T_a, T_m1, T_x, T_xx}
QueryArgvs == SeqsUpTo(QueryTokens, MaxQueryArgs)
QueryRegNames == {<<"x">>, <<"-", "-", "x">>}

(***************************************************************************)
(* is_number: std::istringstream istr(arg); double number; istr >> number; *)
(* return !(istr.fail() || istr.bad()).  The extraction skips leading      *)
(* white space, then reads the longest prefix of the form                  *)
(*    [+-] digits [. digits] [ (e|E) [+-] digits ]                         *)
(* and fails when that prefix has no mantissa digit or has an exponent     *)
(* mark without exponent digits.  What follows the prefix is left unread   *)
(* and does not make the extraction fail.                                  *)
(*   st: "start" before the sign, "int" in the integer part, "frac" after  *)
(*   the point, "esign" right after the exponent mark, "exp" in the        *)
(*   exponent; mant/expd: a mantissa/exponent digit was read.              *)
(***************************************************************************)
RECURSIVE ScanDouble(_, _, _, _, _)
ScanDouble(s, k, st, mant, expd) ==
    LET accepted == mant /\ (st \in {"int", "frac"} \/ expd)
    IN  IF k > Len(s) THEN accepted
        ELSE LET c == s[k]
             IN  CASE c \in Digits /\ st \in {"start", "int"} ->
                          ScanDouble(s, k + 1, "int", TRUE, expd)
                   [] c \in Digits /\ st = "frac" ->
                          ScanDouble(s, k + 1, "frac", TRUE, expd)
                   [] c \in Digits /\ st \in {"esign", "exp"} ->
                          ScanDouble(s, k + 1, "exp", mant, TRUE)
                   [] c \in {"+", "-"} /\ st = "start" ->
                          ScanDouble(s, k + 1, "int", mant, expd)
                   [] c \in {"+", "-"} /\ st = "esign" ->
                          ScanDouble(s, k + 1, "exp", mant, expd)
                   [] c = "." /\ st \in {"start", "int"} ->
                          ScanDouble(s, k + 1, "frac", mant, expd)
                   [] c \in {"e", "E"} /\ st \in {"int", "frac"} /\ mant ->
                          ScanDouble(s, k + 1, "esign", mant, expd)
                   [] OTHER -> accepted

RECURSIVE SkipWhitespace(_, _)
SkipWhitespace(s, k) ==
    IF k <= Len(s) /\ s[k] \in Whitespace THEN SkipWhitespace(s, k + 1) ELSE k

(***************************************************************************)
(* istr >> number is the library's num_get.  libstdc++ (and the Microsoft  *)
(* library) stop at the first character that cannot continue the number,   *)
(* which is ScanDouble.  libc++ first gathers characters for as long as    *)
(* they are among 0123456789abcdefABCDEFxX+-pPiInN or the decimal point (a *)
(* sign only in front or right after the exponent letter, one decimal      *)
(* point, and none after the exponent letter), and then fails unless       *)
(* strtold converts all it has gathered.  The tokens of this model have no *)
(* hexadecimal, inf or nan spelling, so strtold converts all of a text     *)
(* exactly when the whole text has the form ScanDouble reads.              *)
(*   units: no decimal point and no exponent letter so far; expo: the      *)
(*   exponent letter was gathered.                                         *)
(***************************************************************************)
Libraries == {"libstdc++", "libc++"}

GatheredAtoms ==
    Digits \cup {"a", "b", "c", "d", "e", "f", "A", "B", "C", "D", "E", "F",
                 "x", "X", "p", "P", "i", "I", "n", "N"}

RECURSIVE Gather(_, _, _, _)
Gather(s, k, units, expo) ==
    IF k > Len(s) THEN k
    ELSE LET c == s[k]
             afterExpo == k > 1 /\ s[k - 1] \in {"e", "E"} /\ expo
         IN  CASE c = "." -> IF units THEN Gather(s, k + 1, FALSE, expo) ELSE k
               [] c \in {"+", "-"} ->
                      IF k = 1 \/ afterExpo THEN Gather(s, k + 1, units, expo) ELSE k
               [] c \in {"e", "E"} /\ ~expo -> Gather(s, k + 1, FALSE, TRUE)
               [] c \in GatheredAtoms -> Gather(s, k + 1, units, expo)
               [] OTHER -> k

RECURSIVE ConvertsWhole(_, _, _, _, _)
ConvertsWhole(s, k, st, mant, expd) ==
    IF k > Len(s) THEN mant /\ (st \in {"int", "frac"} \/ expd)
    ELSE LET c == s[k]
         IN  CASE c \in Digits /\ st \in {"start", "int"} ->
                      ConvertsWhole(s, k + 1, "int", TRUE, expd)
               [] c \in Digits /\ st = "frac" ->
                      ConvertsWhole(s, k + 1, "frac", TRUE, expd)
               [] c \in Digits /\ st \in {"esign", "exp"} ->
                      ConvertsWhole(s, k + 1, "exp", mant, TRUE)
               [] c \in {"+", "-"} /\ st = "start" ->
                      ConvertsWhole(s, k + 1, "int", mant, expd)
               [] c \in {"+", "-"} /\ st = "esign" ->
                      ConvertsWhole(s, k + 1, "exp", mant, expd)
               [] c = "." /\ st \in {"start", "int"} ->
                      ConvertsWhole(s, k + 1, "frac", mant, expd)
               [] c \in {"e", "E"} /\ st \in {"int", "frac"} /\ mant ->
                      ConvertsWhole(s, k + 1, "esign", mant, expd)
               [] OTHER -> FALSE

\* what num_get of libc++ gathers from the text, after the white space
Gathered(arg) ==
    LET rest == SubSeq(arg, SkipWhitespace(arg, 1), Len(arg))
    IN  SubSeq(rest, 1, Gather(rest, 1, TRUE, FALSE) - 1)

\* a variant that takes a token for a number only when all of it is one
is_number_WholeToken(arg) == ConvertsWhole(arg, 1, "start", FALSE, FALSE)

is_number(arg) ==
    IF stdlib = "libc++"
    THEN ConvertsWhole(Gathered(arg), 1, "start", FALSE, FALSE)
    ELSE ScanDouble(arg, SkipWhitespace(arg, 1), "start", FALSE, FALSE)

\* is_option without the is_number test
is_option_DashOnly(arg) == arg # <<>> /\ arg[1] = Dash

\* assert(0 != arg.size()) in is_option fails
assert_fails(arg) == Len(arg) = 0

\* is_option past its assertion; where the assertion is compiled out an
\* empty arg is read at arg[0], the terminating '\0', which is no dash
is_option(arg) ==
    IF is_number(arg) THEN FALSE ELSE arg # <<>> /\ arg[1] = Dash

(***************************************************************************)
(* trim_leading_dashes: pos = name.find_first_not_of('-'); name.substr(pos)*)
(* find_first_not_of returns npos when every character is a dash (or the   *)
(* string is empty); substr(npos) then throws std::out_of_range, because   *)
(* npos > size().  Positions are 1-based here and npos is 0.               *)
(***************************************************************************)
npos == 0

RECURSIVE FindNotDashFrom(_, _)
FindNotDashFrom(s, k) ==
    IF k > Len(s) THEN npos
    ELSE IF s[k] # Dash THEN k ELSE FindNotDashFrom(s, k + 1)

find_first_not_of_dash(name) == FindNotDashFrom(name, 1)

trim_throws(name) == find_first_not_of_dash(name) = npos

\* a variant that strips one leading dash only
trim_leading_dashes_OneDash(name) ==
    SubSeq(name, IF name[1] = Dash THEN 2 ELSE 1, Len(name))

trim_leading_dashes(name) == SubSeq(name, find_first_not_of_dash(name), Len(name))

\* name.find('=')
RECURSIVE FindEqualsFrom(_, _)
FindEqualsFrom(s, k) ==
    IF k > Len(s) THEN npos
    ELSE IF s[k] = Equals THEN k ELSE FindEqualsFrom(s, k + 1)

find_equals(name) == FindEqualsFrom(name, 1)


(***************************************************************************)
(* The containers.                                                         *)
(***************************************************************************)
\* std::map::insert: the pair is inserted only when the key is not yet there
\* a variant that overwrites the value of a key that is present
map_insert_Overwrites(m, key, value) ==
    [k \in DOMAIN m \cup {key} |-> IF k = key THEN value ELSE m[k]]

map_insert(m, key, value) ==
    IF key \in DOMAIN m THEN m ELSE m @@ (key :> value)

\* std::multiset::emplace
multiset_emplace(b, x) == b (+) SetToBag({x})

RECURSIVE EmplaceChars(_, _, _)
EmplaceChars(b, name, k) ==
    IF k > Len(name) THEN b
    ELSE EmplaceChars(multiset_emplace(b, <<name[k]>>), name, k + 1)

\* a variant that steps back instead of forward
skip_value_Back(idx) == idx - 1

\* ++i; // skip next value, it is not a free parameter
skip_value(idx) == idx + 1

\* a variant that puts the new element in front
emplace_back_Front(v, x) == <<x>> \o v

\* std::vector::emplace_back
emplace_back(v, x) == Append(v, x)

EmptyMap == <<>>

(***************************************************************************)
(* The decisions of the parse loop, in the order of the source.            *)
(***************************************************************************)
\* the split with the test of the mode bit inverted
SplitsOnEquals_Inverted(m, name) ==
    HasBit(m, NO_SPLIT_ON_EQUALSIGN) /\ find_equals(name) # npos

\* the split without the test of the mode bit
SplitsOnEquals_IgnoresMode(m, name) == find_equals(name) # npos

\* !(mode & NO_SPLIT_ON_EQUALSIGN) and name.find('=') != npos
SplitsOnEquals(m, name) ==
    ~HasBit(m, NO_SPLIT_ON_EQUALSIGN) /\ find_equals(name) # npos

\* the test without the count of the leading dashes
IsMultiFlag_AnyDashes(arg, name, m, registered) ==
    /\ HasBit(m, SINGLE_DASH_IS_MULTIFLAG)
    /\ name \notin registered

\* the option is unregistered and should be a multi-flag
IsMultiFlag(arg, name, m, registered) ==
    /\ 1 = Len(arg) - Len(name)
    /\ HasBit(m, SINGLE_DASH_IS_MULTIFLAG)
    /\ name \notin registered

\* i == args_.size() - 1 || is_option(args_[i + 1])
NoValueFollows(args, idx) ==
    idx = Len(args) - 1 \/ is_option(args[idx + 2])

\* the test without the look-up of the registered names
TakesNextAsValue_IgnoresRegistered(name, m, registered) ==
    HasBit(m, PREFER_PARAM_FOR_UNREG_OPTION)

\* registeredParams_.find(name) != end || PREFER_PARAM_FOR_UNREG_OPTION & mode
TakesNextAsValue(name, m, registered) ==
    name \in registered \/ HasBit(m, PREFER_PARAM_FOR_UNREG_OPTION)

\* if (PREFER_FLAG_FOR_UNREG_OPTION & mode)
RecordsUnregAsFlag(m) == HasBit(m, PREFER_FLAG_FOR_UNREG_OPTION)

(***************************************************************************)
(* The state after construction: parser() = default.                       *)
(***************************************************************************)
NoDefault == [kind |-> "none", int |-> 0, str |-> <<>>]

NoCall == [op |-> "none", name |-> <<>>, names |-> <<>>, ind |-> 0,
           def |-> NoDefault, view |-> <<>>, word |-> <<>>, threw |-> FALSE, flag |-> FALSE, fail |-> FALSE, str |-> <<>>,
           ok |-> FALSE, val |-> 0]

Init ==
    /\ args_ = <<>>
    /\ params_ = EmptyMap
    /\ pos_args_ = <<>>
    /\ flags_ = EmptyBag
    /\ registeredParams_ = {}
    /\ mode = 0
    /\ i = 0
    /\ pc = "idle"
    /\ ret = NoCall
    /\ stdlib = "libstdc++"

(***************************************************************************)
(* add_param(name), called before parse.                                   *)
(***************************************************************************)
add_param(names) ==
    /\ pc = "idle"
    /\ \E name \in names :
         registeredParams_' = registeredParams_ \cup {trim_leading_dashes(name)}
    /\ UNCHANGED <<args_, params_, pos_args_, flags_, mode, i, pc, ret, stdlib>>

(***************************************************************************)
(* parse(argc, argv, mode): the call copies argv into args_ and enters the *)
(* loop; parse_loop is one iteration of the for loop, up to and including  *)
(* the ++i and the test i < args_.size() that follow it.                   *)
(***************************************************************************)
parse(argvs) ==
    /\ pc = "idle"
    /\ \E argv \in argvs, m \in Modes :
         /\ args_' = argv
         /\ mode' = m
         /\ pc' = IF 0 < Len(argv) THEN "loop" ELSE "done"
    /\ i' = 0
    /\ UNCHANGED <<params_, pos_args_, flags_, registeredParams_, ret, stdlib>>

parse_loop ==
    /\ pc = "loop"
    /\ LET arg == args_[i + 1]
           name == trim_leading_dashes(arg)
           equalPos == find_equals(name)
           multi == IF IsMultiFlag(arg, name, mode, registeredParams_)
                    THEN EmplaceChars(flags_, name, 1)
                    ELSE flags_
           Continue(next) ==
               /\ i' = next
               /\ pc' = IF next < Len(args_) THEN "loop" ELSE "done"
           \* is_option is called on the token, and on the next one when the
           \* lookahead is reached; its assertion fails on an empty token
           asserts ==
               \/ assert_fails(arg)
               \/ /\ is_option(arg) /\ ~trim_throws(arg)
                  /\ ~SplitsOnEquals(mode, name)
                  /\ i < Len(args_) - 1
                  /\ assert_fails(args_[i + 2])
       IN  \/ \* a build with assertions: the program is aborted
              /\ asserts
              /\ pc' = "aborted"
              /\ UNCHANGED <<params_, pos_args_, flags_, i>>
           \/ \* no assertion fails, or the build has none (NDEBUG)
              IF ~is_option(arg)
              THEN /\ pos_args_' = emplace_back(pos_args_, arg)
                   /\ Continue(i + 1)
                   /\ UNCHANGED <<params_, flags_>>
              ELSE IF trim_throws(arg)
              THEN \* std::out_of_range leaves parse
                   /\ pc' = "threw"
                   /\ UNCHANGED <<params_, pos_args_, flags_, i>>
              ELSE IF SplitsOnEquals(mode, name)
              THEN /\ params_' = map_insert(params_, SubSeq(name, 1, equalPos - 1),
                                            SubSeq(name, equalPos + 1, Len(name)))
                   /\ Continue(i + 1)
                   /\ UNCHANGED <<pos_args_, flags_>>
              ELSE IF NoValueFollows(args_, i)
              THEN /\ flags_' = multiset_emplace(multi, name)
                   /\ Continue(i + 1)
                   /\ UNCHANGED <<params_, pos_args_>>
              ELSE IF TakesNextAsValue(name, mode, registeredParams_)
              THEN /\ params_' = map_insert(params_, name, args_[i + 2])
                   /\ flags_' = multi
                   /\ Continue(skip_value(i) + 1)
                   /\ UNCHANGED pos_args_
              ELSE /\ flags_' = IF RecordsUnregAsFlag(mode)
                                THEN multiset_emplace(multi, name)
                                ELSE multi
                   /\ Continue(i + 1)
                   /\ UNCHANGED <<params_, pos_args_>>
    /\ UNCHANGED <<args_, registeredParams_, mode, ret, stdlib>>

Next ==
    \/ add_param(RegNames)
    \/ parse(Argvs)
    \/ parse_loop

Spec == Init /\ [][Next]_vars

\* the same parser, given argument vectors rich in negative numbers
NextNumbers ==
    \/ add_param(RegNames)
    \/ parse(NumberArgvs)
    \/ parse_loop

SpecNumbers == Init /\ [][NextNumbers]_vars

\* the same parser, given empty and dash-only tokens
NextEdge ==
    \/ add_param(RegNames)
    \/ parse(EdgeArgvs)
    \/ parse_loop

SpecEdge == Init /\ [][NextEdge]_vars

\* parse is sequential code: once inside the loop the program keeps taking
\* iterations until the loop is left
SpecEdgeFair == Init /\ [][NextEdge]_vars /\ WF_vars(parse_loop)

(***************************************************************************)
(* The accessors.  A string_stream is a record: its text and its failbit.  *)
(***************************************************************************)
string_stream(text) == [str |-> text, fail |-> FALSE]

bad_stream == [str |-> <<>>, fail |-> TRUE]

\* ostr << def_val: an int is written in decimal, a string as it is
DigitChars == <<"0", "1", "2", "3", "4", "5", "6", "7", "8", "9">>

RECURSIVE NatToText(_)
NatToText(n) ==
    IF n < 10 THEN <<DigitChars[n + 1]>>
    ELSE Append(NatToText(n \div 10), DigitChars[(n % 10) + 1])

ostr_insert(def) ==
    IF def.kind = "str" THEN def.str
    ELSE IF def.int < 0 THEN <<Dash>> \o NatToText(0 - def.int)
    ELSE NatToText(def.int)

\* stream >> int: skips white space, reads [+-] digits; fails without a digit
DigitValue(c) == CHOOSE d \in 0 .. 9 : DigitChars[d + 1] = c

RECURSIVE ScanInt(_, _, _, _)
ScanInt(s, k, seen, acc) ==
    IF k <= Len(s) /\ s[k] \in Digits
    THEN ScanInt(s, k + 1, TRUE, 10 * acc + DigitValue(s[k]))
    ELSE [ok |-> seen, val |-> IF seen THEN acc ELSE 0]

scan_int(text) ==
    LET k == SkipWhitespace(text, 1)
        signed == k <= Len(text) /\ text[k] \in {"+", "-"}
        r == ScanInt(text, IF signed THEN k + 1 ELSE k, FALSE, 0)
    IN  IF signed /\ text[k] = Dash
        THEN [ok |-> r.ok, val |-> 0 - r.val]
        ELSE r

\* the value of the caller's variable before stream >> variable
TargetBefore == 0 - 1

\* a variant that zeroes the variable although the stream had failed before
extract_int_ZeroesAlways(stream, old) ==
    IF stream.fail THEN {[ok |-> FALSE, val |-> 0]}
    ELSE IF scan_int(stream.str).ok THEN {scan_int(stream.str)}
    ELSE {[ok |-> FALSE, val |-> 0]}

\* stream >> variable, the outcomes.  A stream that has failed already
\* leaves the variable alone; a text that does not convert sets failbit
\* and leaves the variable alone (a library older than C++11) or writes 0
\* to it (C++11 and later).
extract_int(stream, old) ==
    IF stream.fail THEN {[ok |-> FALSE, val |-> old]}
    ELSE IF scan_int(stream.str).ok THEN {scan_int(stream.str)}
    ELSE {[ok |-> FALSE, val |-> old], [ok |-> FALSE, val |-> 0]}

\* bool operator[](std::string const& name)
flag_lookup(name) == trim_leading_dashes(name) \in BagToSet(flags_)

\* std::string const& operator[](size_t ind)
pos_lookup(ind) == IF ind < Len(pos_args_) THEN pos_args_[ind + 1] ELSE <<>>

\* a variant that looks the name up as it was given
param_stream_NoTrim(name) ==
    IF name = <<>> THEN bad_stream
    ELSE IF name \notin DOMAIN params_ THEN bad_stream
    ELSE string_stream(params_[name])

\* string_stream operator()(std::string const& name)
param_stream(name) ==
    IF name = <<>> THEN bad_stream
    ELSE IF trim_leading_dashes(name) \notin DOMAIN params_ THEN bad_stream
    ELSE string_stream(params_[trim_leading_dashes(name)])

\* a variant that falls back on the default when the value does not convert
param_stream_def_OnFailure(name, def) ==
    IF name = <<>> THEN string_stream(ostr_insert(def))
    ELSE IF trim_leading_dashes(name) \notin DOMAIN params_
    THEN string_stream(ostr_insert(def))
    ELSE IF scan_int(params_[trim_leading_dashes(name)]).ok
    THEN string_stream(params_[trim_leading_dashes(name)])
    ELSE string_stream(ostr_insert(def))

\* string_stream operator()(std::string const& name, T&& def_val)
param_stream_def(name, def) ==
    IF name = <<>> THEN string_stream(ostr_insert(def))
    ELSE IF trim_leading_dashes(name) \notin DOMAIN params_
    THEN string_stream(ostr_insert(def))
    ELSE string_stream(params_[trim_leading_dashes(name)])

\* string_stream operator()(size_t ind)
pos_stream(ind) ==
    IF Len(pos_args_) <= ind THEN bad_stream
    ELSE string_stream(pos_args_[ind + 1])

\* a variant that falls back on the default when the arg does not convert
pos_stream_def_OnFailure(ind, def) ==
    IF Len(pos_args_) <= ind THEN string_stream(ostr_insert(def))
    ELSE IF scan_int(pos_args_[ind + 1]).ok THEN string_stream(pos_args_[ind + 1])
    ELSE string_stream(ostr_insert(def))

\* string_stream operator()(size_t ind, T&& def_val)
pos_stream_def(ind, def) ==
    IF Len(pos_args_) <= ind THEN string_stream(ostr_insert(def))
    ELSE string_stream(pos_args_[ind + 1])

\* the names, indices and defaults the accessors are called with
RECURSIVE Dashes(_)
Dashes(n) == IF n = 0 THEN <<>> ELSE <<Dash>> \o Dashes(n - 1)

QueryBareNames == {<<"x">>}

QueryNames ==
    {Dashes(j) \o n : j \in 0 .. MaxDashes, n \in QueryBareNames}
        \cup {<<>>, <<Dash>>}

QueryIndices == 0 .. MaxQueryArgs

IntDefault(n) == [kind |-> "int", int |-> n, str |-> <<>>]

StrDefault(s) == [kind |-> "str", int |-> 0, str |-> s]

Defaults == {IntDefault(7), StrDefault(<<"*">>)}

\* what a call can leave in ret: the stream returned, then stream >> int
Returned(op, name, ind, def, stream) ==
    {[op |-> op, name |-> name, names |-> <<>>, ind |-> ind, def |-> def,
      view |-> <<>>, word |-> <<>>, threw |-> FALSE, flag |-> FALSE, fail |-> stream.fail, str |-> stream.str,
      ok |-> r.ok, val |-> r.val] : r \in extract_int(stream, TargetBefore)}

Threw(op, name) == {[NoCall EXCEPT !.op = op, !.name = name, !.threw = TRUE]}

\* cmdl[name]
query_flag ==
    /\ pc = "done"
    /\ \E name \in QueryNames :
         ret' \in IF trim_throws(name) THEN Threw("flag", name)
                   ELSE {[NoCall EXCEPT !.op = "flag", !.name = name,
                                        !.flag = flag_lookup(name)]}
    /\ UNCHANGED <<args_, params_, pos_args_, flags_, registeredParams_, mode,
                 i, pc, stdlib>>

\* cmdl[ind]
query_pos ==
    /\ pc = "done"
    /\ \E ind \in QueryIndices :
         ret' = [NoCall EXCEPT !.op = "pos", !.ind = ind, !.str = pos_lookup(ind)]
    /\ UNCHANGED <<args_, params_, pos_args_, flags_, registeredParams_, mode,
                 i, pc, stdlib>>

\* a variant that looks the name up with std::map::operator[], which adds
\* a missing key with an empty value
query_param_Inserting ==
    /\ pc = "done"
    /\ \E name \in QueryNames :
         /\ ret' \in IF name # <<>> /\ trim_throws(name) THEN Threw("param", name)
                      ELSE Returned("param", name, 0, NoDefault, param_stream(name))
         /\ params_' = IF name = <<>> \/ trim_throws(name) THEN params_
                        ELSE map_insert(params_, trim_leading_dashes(name), <<>>)
    /\ UNCHANGED <<args_, pos_args_, flags_, registeredParams_, mode, i, pc, stdlib>>

\* cmdl(name) >> int
query_param ==
    /\ pc = "done"
    /\ \E name \in QueryNames :
         ret' \in IF name # <<>> /\ trim_throws(name) THEN Threw("param", name)
                   ELSE Returned("param", name, 0, NoDefault, param_stream(name))
    /\ UNCHANGED <<args_, params_, pos_args_, flags_, registeredParams_, mode,
                 i, pc, stdlib>>

\* cmdl(name, def_val) >> int
query_param_def ==
    /\ pc = "done"
    /\ \E name \in QueryNames, def \in Defaults :
         ret' \in IF name # <<>> /\ trim_throws(name) THEN Threw("param_def", name)
                   ELSE Returned("param_def", name, 0, def, param_stream_def(name, def))
    /\ UNCHANGED <<args_, params_, pos_args_, flags_, registeredParams_, mode,
                 i, pc, stdlib>>

\* cmdl(ind) >> int
query_pos_stream ==
    /\ pc = "done"
    /\ \E ind \in QueryIndices :
         ret' \in Returned("pos_stream", <<>>, ind, NoDefault, pos_stream(ind))
    /\ UNCHANGED <<args_, params_, pos_args_, flags_, registeredParams_, mode,
                 i, pc, stdlib>>

\* cmdl(ind, def_val) >> int
query_pos_stream_def ==
    /\ pc = "done"
    /\ \E ind \in QueryIndices, def \in Defaults :
         ret' \in Returned("pos_stream_def", <<>>, ind, def, pos_stream_def(ind, def))
    /\ UNCHANGED <<args_, params_, pos_args_, flags_, registeredParams_, mode,
                 i, pc, stdlib>>

\* cmdl.flags(), cmdl.params(), cmdl.pos_args(): the containers themselves
query_flags ==
    /\ pc = "done"
    /\ ret' = [NoCall EXCEPT !.op = "flags", !.view = flags_]
    /\ UNCHANGED <<args_, params_, pos_args_, flags_, registeredParams_, mode,
                 i, pc, stdlib>>

query_params ==
    /\ pc = "done"
    /\ ret' = [NoCall EXCEPT !.op = "params", !.view = params_]
    /\ UNCHANGED <<args_, params_, pos_args_, flags_, registeredParams_, mode,
                 i, pc, stdlib>>

query_pos_args ==
    /\ pc = "done"
    /\ ret' = [NoCall EXCEPT !.op = "pos_args", !.view = pos_args_]
    /\ UNCHANGED <<args_, params_, pos_args_, flags_, registeredParams_, mode,
                 i, pc, stdlib>>

NextQuery ==
    \/ add_param(QueryRegNames)
    \/ parse(QueryArgvs)
    \/ parse_loop
    \/ query_flag
    \/ query_pos
    \/ query_param
    \/ query_param_def
    \/ query_pos_stream
    \/ query_pos_stream_def
    \/ query_flags
    \/ query_params
    \/ query_pos_args

SpecQuery == Init /\ [][NextQuery]_vars

\* the parser given repeated parameter names, and the parameter query
NextRepeat ==
    \/ add_param(QueryRegNames)
    \/ parse(RepeatArgvs)
    \/ parse_loop
    \/ query_param

SpecRepeat == Init /\ [][NextRepeat]_vars

(***************************************************************************)
(* The parser built with either library and given tokens that begin like a *)
(* negative number and go on with other characters.                        *)
(***************************************************************************)
T_m1abc == <<"-", "1", "a", "b", "c">>
T_m1z == <<"-", "1", "z">>

PrefixTokens == {T_m1abc, T_m1z, T_x, T_a}
PrefixArgvs == SeqsUpTo(PrefixTokens, MaxArgs)

InitAnyLibrary ==
    /\ args_ = <<>>
    /\ params_ = EmptyMap
    /\ pos_args_ = <<>>
    /\ flags_ = EmptyBag
    /\ registeredParams_ = {}
    /\ mode = 0
    /\ i = 0
    /\ pc = "idle"
    /\ ret = NoCall
    /\ stdlib \in Libraries

NextPrefix ==
    \/ add_param(QueryRegNames)
    \/ parse(PrefixArgvs)
    \/ parse_loop

SpecPrefix == InitAnyLibrary /\ [][NextPrefix]_vars

\* the same parser, given an option with a dash inside its name
T_xdf == <<"-", "x", "-", "f">>

InnerDashTokens == {T_xdf, T_x, T_m1, T_a}
InnerDashArgvs == SeqsUpTo(InnerDashTokens, MaxArgs)

NextInnerDash ==
    \/ add_param(RegNames)
    \/ parse(InnerDashArgvs)
    \/ parse_loop

SpecInnerDash == Init /\ [][NextInnerDash]_vars

(***************************************************************************)
(* stream >> std::string.  A stream that has failed already reads nothing; *)
(* otherwise leading white space is skipped and the characters up to the   *)
(* next white space are read, and the extraction fails when there is none. *)
(***************************************************************************)
RECURSIVE ScanWord(_, _)
ScanWord(s, k) ==
    IF k > Len(s) \/ s[k] \in Whitespace THEN <<>>
    ELSE <<s[k]>> \o ScanWord(s, k + 1)

extract_string(stream) ==
    LET word == ScanWord(stream.str, SkipWhitespace(stream.str, 1))
    IN  IF stream.fail \/ word = <<>> THEN [ok |-> FALSE, word |-> <<>>]
        ELSE [ok |-> TRUE, word |-> word]

T_xeq == <<"-", "x", "=">>

EmptyValueTokens == {T_xeq, T_xeqa, T_x, T_a}
EmptyValueArgvs == SeqsUpTo(EmptyValueTokens, MaxQueryArgs)

\* cmdl(name) >> std::string
query_param_string ==
    /\ pc = "done"
    /\ \E name \in QueryNames :
         ret' = IF name # <<>> /\ trim_throws(name)
                THEN [NoCall EXCEPT !.op = "param_string", !.name = name,
                                    !.threw = TRUE]
                ELSE [NoCall EXCEPT !.op = "param_string", !.name = name,
                                    !.fail = param_stream(name).fail,
                                    !.str = param_stream(name).str,
                                    !.ok = extract_string(param_stream(name)).ok,
                                    !.word = extract_string(param_stream(name)).word]
    /\ UNCHANGED <<args_, params_, pos_args_, flags_, registeredParams_, mode,
                 i, pc, stdlib>>

NextEmptyValue ==
    \/ add_param(QueryRegNames)
    \/ parse(EmptyValueArgvs)
    \/ parse_loop
    \/ query_param_string

SpecEmptyValue == Init /\ [][NextEmptyValue]_vars

(***************************************************************************)
(* The parameter query by a list of candidate names, cmdl({"a", "b"}) and  *)
(* cmdl({"a", "b"}, def_val).  The header under src/ has no such overload; *)
(* it is modelled from the specification on top of operator()(name): the   *)
(* names are tried in list order and the first one whose stream is good    *)
(* is returned, else the failed stream or the text of the default.         *)
(***************************************************************************)
RECURSIVE first_found(_, _, _)
first_found(names, k, otherwise) ==
    IF k > Len(names) THEN otherwise
    ELSE IF ~param_stream(names[k]).fail THEN param_stream(names[k])
    ELSE first_found(names, k + 1, otherwise)

param_stream_list(names) == first_found(names, 1, bad_stream)

param_stream_list_def(names, def) ==
    first_found(names, 1, string_stream(ostr_insert(def)))

MaxListLen == 2

T_yeq2 == <<"-", "y", "=", "2">>

ListTokens == {T_xeq1, T_yeq2}
ListArgvs == SeqsUpTo(ListTokens, MaxQueryArgs)

ListNames == {<<"x">>, <<"-", "-", "y">>, <<>>}
NameLists == SeqsUpTo(ListNames, MaxListLen)
ListDefaults == {IntDefault(7)}

\* cmdl({names...}) >> int
query_param_list ==
    /\ pc = "done"
    /\ \E names \in NameLists :
         ret' \in {[r EXCEPT !.names = names] :
                     r \in Returned("param_list", <<>>, 0, NoDefault,
                                    param_stream_list(names))}
    /\ UNCHANGED <<args_, params_, pos_args_, flags_, registeredParams_, mode,
                 i, pc, stdlib>>

\* cmdl({names...}, def_val) >> int
query_param_list_def ==
    /\ pc = "done"
    /\ \E names \in NameLists, def \in ListDefaults :
         ret' \in {[r EXCEPT !.names = names] :
                     r \in Returned("param_list_def", <<>>, 0, def,
                                    param_stream_list_def(names, def))}
    /\ UNCHANGED <<args_, params_, pos_args_, flags_, registeredParams_, mode,
                 i, pc, stdlib>>

NextList ==
    \/ parse(ListArgvs)
    \/ parse_loop
    \/ query_param_list
    \/ query_param_list_def

SpecList == Init /\ [][NextList]_vars

(***************************************************************************)
(* parse called again on an instance that has parsed before.  The call is  *)
(* the same function: it resizes and overwrites args_ and runs the loop;   *)
(* nothing in it touches pos_args_, flags_ or params_ before the loop.     *)
(* MaxHeld caps what the instance holds when the call is made.             *)
(***************************************************************************)
MaxHeld == 2

Held == Len(pos_args_) + BagCardinality(flags_) + Cardinality(DOMAIN params_)

T_yeqa == <<"-", "y", "=", "a">>

ReparseTokens == {T_a, T_x, T_yeqa}
ReparseArgvs == SeqsUpTo(ReparseTokens, MaxQueryArgs)

reparse(argvs) ==
    /\ pc = "done"
    /\ Held <= MaxHeld
    /\ \E argv \in argvs, m \in Modes :
         /\ args_' = argv
         /\ mode' = m
         /\ pc' = IF 0 < Len(argv) THEN "loop" ELSE "done"
    /\ i' = 0
    /\ UNCHANGED <<params_, pos_args_, flags_, registeredParams_, ret, stdlib>>

NextReparse ==
    \/ add_param(QueryRegNames)
    \/ parse(ReparseArgvs)
    \/ parse_loop
    \/ reparse(ReparseArgvs)

SpecReparse == Init /\ [][NextReparse]_vars

(***************************************************************************)
(* What a newly constructed instance holds after parse(args, m), computed  *)
(* by running the loop body from empty containers: loop_body is one        *)
(* iteration on the record st of the containers and the index, in a build  *)
(* without assertions.                                                     *)
(***************************************************************************)
loop_body(st, args, m, registered) ==
    LET arg == args[st.i + 1]
        name == trim_leading_dashes(arg)
        equalPos == find_equals(name)
        multi == IF IsMultiFlag(arg, name, m, registered)
                 THEN EmplaceChars(st.flags, name, 1)
                 ELSE st.flags
    IN  IF ~is_option(arg)
        THEN [st EXCEPT !.pos = emplace_back(st.pos, arg), !.i = st.i + 1]
        ELSE IF trim_throws(arg)
        THEN [st EXCEPT !.threw = TRUE]
        ELSE IF SplitsOnEquals(m, name)
        THEN [st EXCEPT !.params = map_insert(st.params,
                                              SubSeq(name, 1, equalPos - 1),
                                              SubSeq(name, equalPos + 1, Len(name))),
                        !.i = st.i + 1]
        ELSE IF NoValueFollows(args, st.i)
        THEN [st EXCEPT !.flags = multiset_emplace(multi, name), !.i = st.i + 1]
        ELSE IF TakesNextAsValue(name, m, registered)
        THEN [st EXCEPT !.params = map_insert(st.params, name, args[st.i + 2]),
                        !.flags = multi, !.i = skip_value(st.i) + 1]
        ELSE [st EXCEPT !.flags = IF RecordsUnregAsFlag(m)
                                  THEN multiset_emplace(multi, name)
                                  ELSE multi,
                        !.i = st.i + 1]

RECURSIVE run_loop(_, _, _, _)
run_loop(st, args, m, registered) ==
    IF st.threw \/ ~(st.i < Len(args)) THEN st
    ELSE run_loop(loop_body(st, args, m, registered), args, m, registered)

FreshInstance ==
    [params |-> EmptyMap, pos |-> <<>>, flags |-> EmptyBag, i |-> 0, threw |-> FALSE]

fresh_parse(args, m, registered) == run_loop(FreshInstance, args, m, registered)

(***************************************************************************)
(* Vocabulary of the claims, defined without the code's helpers.           *)
(***************************************************************************)
\* the normalized name of a token: the token without its leading dashes
RECURSIVE StripDashes(_)
StripDashes(s) ==
    IF s # <<>> /\ Head(s) = Dash THEN StripDashes(Tail(s)) ELSE s

HasEquals(s) == \E k \in 1 .. Len(s) : s[k] = Equals

FirstEquals(s) == CHOOSE k \in 1 .. Len(s) : s[k] = Equals /\ \A j \in 1 .. k - 1 : s[j] # Equals

BeforeEquals(s) == SubSeq(s, 1, FirstEquals(s) - 1)
AfterEquals(s) == SubSeq(s, FirstEquals(s) + 1, Len(s))

\* the token the loop is looking at, and the one after it
Current == args_[i + 1]
HasFollower == i + 2 <= Len(args_)
Follower == args_[i + 2]

\* the token is taken by equals-splitting before any other rule
SplitApplies(arg) == ~HasBit(mode, NO_SPLIT_ON_EQUALSIGN) /\ HasEquals(StripDashes(arg))

Copies(b, x) == IF x \in DOMAIN b THEN b[x] ELSE 0

\* the loop is at a registered option followed by a non-option
C4_Case ==
    /\ pc = "loop"
    /\ is_option(Current)
    /\ StripDashes(Current) \in registeredParams_
    /\ HasFollower /\ ~is_option(Follower)

\* the loop is at an option that equals-splitting takes
C8_Case ==
    /\ pc = "loop"
    /\ is_option(Current)
    /\ SplitApplies(Current)

\* the tokens shaped like negative numbers, and how many a sequence holds
NegativeNumbers == {T_m1, T_m0, T_m04, T_m1e6, T_m13em2}

NegativesIn(s) == Cardinality({k \in 1 .. Len(s) : s[k] \in NegativeNumbers})

\* the k-th token is an option that the loop leaves in no container
RecordedNowhere(k) ==
    /\ ~HasBit(mode, PREFER_FLAG_FOR_UNREG_OPTION)
    /\ ~HasBit(mode, PREFER_PARAM_FOR_UNREG_OPTION)
    /\ StripDashes(args_[k]) \notin registeredParams_
    /\ ~SplitApplies(args_[k])
    /\ k < Len(args_) /\ ~is_option(args_[k + 1])

\* the name under which an option token is recorded
BareName(arg) ==
    IF SplitApplies(arg) THEN BeforeEquals(StripDashes(arg)) ELSE StripDashes(arg)

\* two accessor calls that differ at most in the dashes before the name
SameQuestion(q, r) ==
    /\ q.op = r.op /\ q.op \in {"flag", "param", "param_def"}
    /\ q.name # <<>> /\ r.name # <<>>
    /\ StripDashes(q.name) = StripDashes(r.name) /\ StripDashes(q.name) # <<>>
    /\ q.def = r.def

SameAnswer(q, r) ==
    /\ ~q.threw /\ ~r.threw
    /\ q.flag = r.flag
    /\ q.fail = r.fail /\ q.str = r.str
    /\ q.ok = r.ok /\ (q.ok => q.val = r.val)

\* the text of a default value, and the texts that convert to int
TextOf(def) ==
    CASE def = IntDefault(7) -> <<"7">>
      [] def = StrDefault(<<"*">>) -> <<"*">>

LooksLikeInt(text) ==
    LET body == IF text # <<>> /\ Head(text) \in {"+", "-"} THEN Tail(text) ELSE text
    IN  body # <<>> /\ Head(body) \in Digits

(***************************************************************************)
(* C1: after parse, every input token is accounted for exactly once: it is *)
(* a positional arg, or a flag, or a parameter, or the value consumed by   *)
(* the parameter just before it; no token is dropped and none is recorded  *)
(* twice.  Stated per iteration of the loop, for the iterations that parse *)
(* survives: the iteration records the current token in exactly one        *)
(* container, once, and skips the next token only as the value of the      *)
(* parameter it has just recorded.                                         *)
(***************************************************************************)
C1_EveryTokenAccountedOnce ==
    [][pc = "loop" /\ pc' # "threw" =>
         \/ /\ pos_args_' = Append(pos_args_, Current)
            /\ flags_' = flags_ /\ params_' = params_ /\ i' = i + 1
         \/ /\ BagCardinality(flags_') = BagCardinality(flags_) + 1
            /\ pos_args_' = pos_args_ /\ params_' = params_ /\ i' = i + 1
         \/ /\ Cardinality(DOMAIN params_') = Cardinality(DOMAIN params_) + 1
            /\ pos_args_' = pos_args_ /\ flags_' = flags_
            /\ \/ i' = i + 1
               \/ /\ i' = i + 2
                  /\ \E k \in DOMAIN params_' \ DOMAIN params_ : params_'[k] = Follower
      ]_vars

(***************************************************************************)
(* C2: in the default mode (PREFER_FLAG_FOR_UNREG_OPTION) an option token  *)
(* whose normalized name is not registered and which is followed by a      *)
(* non-option token is recorded as a flag, is not recorded as a parameter, *)
(* and the following token is not consumed: the next iteration appends it  *)
(* to the positional sequence.  Read in the code's favour: tokens that     *)
(* equals-splitting takes first are left out.                              *)
(***************************************************************************)
C2_Case(arg) ==
    /\ is_option(arg)
    /\ StripDashes(arg) \notin registeredParams_
    /\ ~SplitApplies(arg)

C2_DefaultModeUnregIsFlag ==
    [][pc = "loop" /\ mode = PREFER_FLAG_FOR_UNREG_OPTION =>
         /\ (C2_Case(Current) /\ HasFollower /\ ~is_option(Follower)) =>
               /\ flags_' = flags_ (+) SetToBag({StripDashes(Current)})
               /\ params_' = params_
               /\ pos_args_' = pos_args_
               /\ i' = i + 1 /\ pc' = "loop"
         /\ (i > 0 /\ C2_Case(args_[i]) /\ ~is_option(Current)) =>
               pos_args_' = Append(pos_args_, Current)
      ]_vars

(***************************************************************************)
(* C3: with PREFER_PARAM_FOR_UNREG_OPTION set, an unregistered option      *)
(* token followed by a non-option token (a negative number included) is    *)
(* recorded as a parameter whose value is that following token; both       *)
(* tokens are consumed, so the name is not a flag and the value is not a   *)
(* positional arg.  Read in the code's favour: tokens that equals-         *)
(* splitting takes first, names that are already parameters, and single-   *)
(* dash tokens under SINGLE_DASH_IS_MULTIFLAG are left out.                *)
(***************************************************************************)
C3_PreferParamUnregIsParam ==
    [][(/\ pc = "loop" /\ HasBit(mode, PREFER_PARAM_FOR_UNREG_OPTION)
        /\ is_option(Current)
        /\ ~(HasBit(mode, SINGLE_DASH_IS_MULTIFLAG) /\ Len(Current) - Len(StripDashes(Current)) = 1)
        /\ StripDashes(Current) \notin registeredParams_
        /\ ~SplitApplies(Current)
        /\ StripDashes(Current) \notin DOMAIN params_
        /\ HasFollower /\ ~is_option(Follower)) =>
         /\ params_' = params_ @@ (StripDashes(Current) :> Follower)
         /\ flags_' = flags_
         /\ pos_args_' = pos_args_
         /\ i' = i + 2
      ]_vars

(***************************************************************************)
(* C5: an option token that is the last token, or whose next token is      *)
(* itself an option token, is recorded as a flag and never as a parameter, *)
(* registered or not and in every mode; the next token is not consumed.    *)
(* Read in the code's favour: tokens that equals-splitting takes first are *)
(* left out.                                                               *)
(***************************************************************************)
C5_NoValueMeansFlag ==
    [][(/\ pc = "loop"
        /\ is_option(Current)
        /\ ~SplitApplies(Current)
        /\ (~HasFollower \/ is_option(Follower))) =>
         /\ Copies(flags_', StripDashes(Current)) > Copies(flags_, StripDashes(Current))
         /\ params_' = params_
         /\ pos_args_' = pos_args_
         /\ i' = i + 1
      ]_vars

(***************************************************************************)
(* C4, as claimed: an option whose normalized name was registered with     *)
(* add_param (with or without leading dashes) and which is followed by a   *)
(* non-option token is always recorded as a parameter with that token as   *)
(* value, in every mode; it is not a flag and the value is not positional. *)
(***************************************************************************)
C4_RegisteredAlwaysGetsFollower ==
    [][C4_Case =>
         /\ StripDashes(Current) \in DOMAIN params_'
         /\ params_'[StripDashes(Current)] = Follower
         /\ flags_' = flags_ /\ pos_args_' = pos_args_ /\ i' = i + 2
      ]_vars

(***************************************************************************)
(* C4, amended: a registered option that equals-splitting does not take    *)
(* and that is followed by a non-option token is handled as a parameter in *)
(* every mode: both tokens are consumed, no flag is recorded and the value *)
(* token is not positional.  The parameter is recorded with that token as  *)
(* value unless a parameter of that name is already stored; the stored     *)
(* value is then kept.                                                     *)
(***************************************************************************)
C4_RegisteredIsParam ==
    [][(C4_Case /\ ~SplitApplies(Current)) =>
         /\ params_' = IF StripDashes(Current) \in DOMAIN params_
                       THEN params_
                       ELSE params_ @@ (StripDashes(Current) :> Follower)
         /\ flags_' = flags_ /\ pos_args_' = pos_args_ /\ i' = i + 2
      ]_vars

\* -x a in the default mode, x registered as "--x" or as "x": x = a, no flag
C4_Witness ==
    /\ pc = "done" /\ mode = PREFER_FLAG_FOR_UNREG_OPTION
    /\ registeredParams_ = {<<"x">>}
    /\ args_ = <<T_x, T_a>>
    /\ params_ = (<<"x">> :> T_a) /\ flags_ = EmptyBag /\ pos_args_ = <<>>

(***************************************************************************)
(* C6, as claimed: for every token sequence and every mode, a token shaped *)
(* like a negative number (-1, -0, -0.4, -1e6, -1.3e-2) is never treated   *)
(* as an option and always ends up in the positional sequence.             *)
(***************************************************************************)
C6_NegativeAlwaysPositional ==
    pc = "done" => NegativesIn(pos_args_) = NegativesIn(args_)

(***************************************************************************)
(* C6, amended: a token shaped like a negative number is never treated as  *)
(* an option: when the loop reaches it, it is appended to the positional   *)
(* sequence, in every mode; it is missing from the positional sequence     *)
(* only when it directly follows an option that takes it as its value (a   *)
(* registered name, or any option under PREFER_PARAM_FOR_UNREG_OPTION).  A *)
(* command line made only of such tokens yields argc positionals, zero     *)
(* flags and zero parameters.                                              *)
(***************************************************************************)
C6_NegativeNumberIsNoOption ==
    [][pc = "loop" =>
         /\ Current \in NegativeNumbers =>
               /\ pos_args_' = Append(pos_args_, Current)
               /\ flags_' = flags_ /\ params_' = params_ /\ i' = i + 1
         /\ (i' = i + 2 /\ Follower \in NegativeNumbers) =>
               /\ Head(Current) = Dash /\ Current \notin NegativeNumbers
               /\ \/ StripDashes(Current) \in registeredParams_
                  \/ HasBit(mode, PREFER_PARAM_FOR_UNREG_OPTION)
               /\ pos_args_' = pos_args_
         /\ (pc' = "done" /\ \A k \in 1 .. Len(args_) : args_[k] \in NegativeNumbers) =>
               /\ pos_args_' = args_
               /\ flags_' = EmptyBag /\ params_' = EmptyMap
      ]_vars

\* three negative numbers and nothing else: three positionals
C6_Witness ==
    /\ pc = "done" /\ Len(args_) = 3
    /\ \A k \in 1 .. Len(args_) : args_[k] \in NegativeNumbers
    /\ pos_args_ = args_ /\ flags_ = EmptyBag /\ params_ = EmptyMap

C8_SplitRecordsItsValue ==
    [][C8_Case =>
         /\ BeforeEquals(StripDashes(Current)) \in DOMAIN params_'
         /\ params_'[BeforeEquals(StripDashes(Current))] = AfterEquals(StripDashes(Current))
         /\ flags_' = flags_ /\ pos_args_' = pos_args_ /\ i' = i + 1
      ]_vars

(***************************************************************************)
(* C8, amended: with equals-splitting enabled an option token whose        *)
(* normalized name contains '=' is recorded as a parameter whose name is   *)
(* the text before the first '=' and whose value is the text after it,     *)
(* unless a parameter of that name is already stored, in which case the    *)
(* stored value is kept; no flag is recorded and the following token is    *)
(* not consumed, whatever the registered names, the next token and the     *)
(* prefer-flag/prefer-param bits are.                                      *)
(***************************************************************************)
C8_SplitOnEquals ==
    [][C8_Case =>
         /\ params_' = IF BeforeEquals(StripDashes(Current)) \in DOMAIN params_
                       THEN params_
                       ELSE params_ @@ (BeforeEquals(StripDashes(Current))
                                           :> AfterEquals(StripDashes(Current)))
         /\ flags_' = flags_ /\ pos_args_' = pos_args_ /\ i' = i + 1
      ]_vars

\* -x=a a with x=a registered and prefer-param: x = a, and a stays positional
C8_Witness ==
    /\ pc = "done" /\ mode = PREFER_PARAM_FOR_UNREG_OPTION
    /\ <<"x", "=", "a">> \in registeredParams_
    /\ args_ = <<T_xeqa, T_a>>
    /\ params_ = (<<"x">> :> T_a) /\ flags_ = EmptyBag /\ pos_args_ = <<T_a>>

(***************************************************************************)
(* C9: with NO_SPLIT_ON_EQUALSIGN set an option token containing '=' is    *)
(* not split: it is classified like any other option under its whole       *)
(* normalized name (such a token alone yields a flag of that name), and no *)
(* parameter named by the text before the '=' is created.                  *)
(***************************************************************************)
C9_NoSplitKeepsWholeName ==
    [][(/\ pc = "loop"
        /\ HasBit(mode, NO_SPLIT_ON_EQUALSIGN)
        /\ is_option(Current)
        /\ HasEquals(Current)) =>
         LET whole == StripDashes(Current)
             added == DOMAIN params_' \ DOMAIN params_
             isFlagged == Copies(flags_', whole) = Copies(flags_, whole) + 1
         IN  /\ added \subseteq {whole}
             /\ BeforeEquals(whole) \notin added
             /\ pos_args_' = pos_args_
             /\ IF ~HasFollower \/ is_option(Follower)
                THEN isFlagged /\ params_' = params_ /\ i' = i + 1
                ELSE IF whole \in registeredParams_
                        \/ HasBit(mode, PREFER_PARAM_FOR_UNREG_OPTION)
                THEN /\ whole \in DOMAIN params_'
                     /\ (whole \in added => params_'[whole] = Follower)
                     /\ i' = i + 2
                ELSE /\ params_' = params_ /\ i' = i + 1
                     /\ (HasBit(mode, PREFER_FLAG_FOR_UNREG_OPTION) => isFlagged)
      ]_vars

\* -x=a alone, NO_SPLIT_ON_EQUALSIGN | PREFER_FLAG_FOR_UNREG_OPTION: the flag x=a
C9_Witness ==
    /\ pc = "done"
    /\ mode = NO_SPLIT_ON_EQUALSIGN + PREFER_FLAG_FOR_UNREG_OPTION
    /\ args_ = <<T_xeqa>>
    /\ flags_ = SetToBag({<<"x", "=", "a">>})
    /\ params_ = EmptyMap /\ pos_args_ = <<>>

DashOnly(arg) == arg # <<>> /\ \A k \in 1 .. Len(arg) : arg[k] = Dash

(***************************************************************************)
(* C13: parse accepts every input: for every token sequence (empty tokens  *)
(* included), every mode and every set of registered names, parse runs to  *)
(* completion, raising no exception and violating no assertion.            *)
(***************************************************************************)
C13_ParseAcceptsEveryInput == pc \notin {"threw", "aborted"}

(***************************************************************************)
(* C14: a token that consists only of dashes is not specially handled:     *)
(* parse normalizes it to the empty name without any failure (the loop     *)
(* goes on to the next token or ends normally).                            *)
(***************************************************************************)
C14_DashOnlyIsNormalized ==
    [][(pc = "loop" /\ DashOnly(Current)) => pc' \in {"loop", "done"}]_vars

\* the last call returned a stream, from which an int was extracted
StreamCall ==
    /\ ret.op \in {"param", "param_def", "pos_stream", "pos_stream_def"}
    /\ ~ret.threw

C11_AbsentReportsAbsence ==
    /\ (ret.op = "pos" /\ ret.ind >= Len(pos_args_)) => ret.str = <<>>
    /\ (ret.op = "pos_stream" /\ ret.ind >= Len(pos_args_)) =>
          ret.fail /\ ret.str = <<>>
    /\ (ret.op = "param" /\ ret.name # <<>>
           /\ StripDashes(ret.name) \notin DOMAIN params_) =>
          ~ret.threw /\ ret.fail /\ ret.str = <<>>
    /\ (ret.op = "flag" /\ ret.name # <<>>
           /\ StripDashes(ret.name) \notin BagToSet(flags_)) =>
          ~ret.threw /\ ~ret.flag

(***************************************************************************)
(* C12: a lookup by the empty string never matches and reports absence     *)
(* after any parse: cmdl[""] returns false, cmdl("") returns a failed      *)
(* stream, and cmdl("", d) returns the text of d.                          *)
(***************************************************************************)
C12_EmptyNameIsAbsent ==
    ret.name = <<>> =>
        /\ ret.op = "flag" => ~ret.threw /\ ~ret.flag
        /\ ret.op = "param" => ~ret.threw /\ ret.fail
        /\ ret.op = "param_def" => ~ret.threw /\ ~ret.fail /\ ret.str = TextOf(ret.def)

\* the number of leading dashes of a token, and one flag per character
LeadingDashes(arg) == Len(arg) - Len(StripDashes(arg))

CharBag(name) ==
    [c \in {<<name[k]>> : k \in DOMAIN name} |->
        Cardinality({k \in DOMAIN name : <<name[k]>> = c})]

\* the loop is at an unregistered single-dash option in multi-flag mode
SingleDashCase ==
    /\ pc = "loop"
    /\ is_option(Current) /\ ~DashOnly(Current)
    /\ LeadingDashes(Current) = 1
    /\ HasBit(mode, SINGLE_DASH_IS_MULTIFLAG)
    /\ StripDashes(Current) \notin registeredParams_

\* the loop is at an option with two dashes or more, or the mode bit is off
NoMultiFlagCase ==
    /\ pc = "loop"
    /\ is_option(Current) /\ ~DashOnly(Current)
    /\ LeadingDashes(Current) >= 2 \/ ~HasBit(mode, SINGLE_DASH_IS_MULTIFLAG)

\* the flags after the iteration are those before it, or those and the
\* whole normalized name
AddsWholeNameAtMost(before) ==
    flags_' \in {before, before (+) SetToBag({StripDashes(Current)})}

(***************************************************************************)
(* C16, as claimed: with SINGLE_DASH_IS_MULTIFLAG set, an option token     *)
(* written with exactly one leading dash whose name is not registered is   *)
(* split into one flag per character of its name; a token with two or more *)
(* leading dashes is never split, and without the mode bit no token is.    *)
(***************************************************************************)
C16_SingleDashAlwaysSplit ==
    [][/\ SingleDashCase =>
             AddsWholeNameAtMost(flags_ (+) CharBag(StripDashes(Current)))
       /\ NoMultiFlagCase => AddsWholeNameAtMost(flags_)
      ]_vars

(***************************************************************************)
(* C16, amended: with SINGLE_DASH_IS_MULTIFLAG set, an option token        *)
(* written with exactly one leading dash, whose name is not registered and *)
(* which is not taken by equals-splitting, is split into one flag per      *)
(* character of its name; a token with two or more leading dashes is never *)
(* split, and without the mode bit no token is.  (Besides the flags of the *)
(* characters, nothing but the whole name is ever added to the flags.)     *)
(***************************************************************************)
C16_SingleDashIsSplit ==
    [][/\ (SingleDashCase /\ ~SplitApplies(Current)) =>
             AddsWholeNameAtMost(flags_ (+) CharBag(StripDashes(Current)))
       /\ NoMultiFlagCase => AddsWholeNameAtMost(flags_)
      ]_vars

\* -xf --x with SINGLE_DASH_IS_MULTIFLAG: x and f from -xf, x from --x
C16_Witness ==
    /\ pc = "done" /\ HasBit(mode, SINGLE_DASH_IS_MULTIFLAG)
    /\ args_ = <<T_xf, T_xx>>
    /\ Copies(flags_, <<"x">>) = 2 /\ Copies(flags_, <<"f">>) = 1

\* the loop is at an option that is not split at '=' and is followed by a
\* token that is no option
ValueFollowsCase ==
    /\ pc = "loop"
    /\ is_option(Current) /\ ~DashOnly(Current)
    /\ ~SplitApplies(Current)
    /\ HasFollower /\ ~is_option(Follower)

LastChar(name) == <<name[Len(name)]>>

(***************************************************************************)
(* C17: multi-flag splitting is a terminal classification of the token:    *)
(* with PREFER_PARAM_FOR_UNREG_OPTION | SINGLE_DASH_IS_MULTIFLAG, an       *)
(* unregistered single-dash token of several characters followed by a      *)
(* non-option token yields only the flags of its characters; the whole     *)
(* name is not a parameter and the next token is not consumed.             *)
(***************************************************************************)
C17_MultiFlagIsTerminal ==
    [][(/\ SingleDashCase /\ ValueFollowsCase
        /\ HasBit(mode, PREFER_PARAM_FOR_UNREG_OPTION)
        /\ Len(StripDashes(Current)) >= 2) =>
           /\ flags_' = flags_ (+) CharBag(StripDashes(Current))
           /\ params_' = params_ /\ pos_args_' = pos_args_
           /\ i' = i + 1
      ]_vars

(***************************************************************************)
(* C18: with SINGLE_DASH_IS_MULTIFLAG set and the last character of a      *)
(* single-dash token registered as a parameter, the token followed by a    *)
(* non-option value gives flags for all characters but the last and a      *)
(* parameter for the last, whose value is the next token; that token is    *)
(* consumed.                                                               *)
(***************************************************************************)
C18_LastCharIsParam ==
    [][(/\ SingleDashCase /\ ValueFollowsCase
        /\ Len(StripDashes(Current)) >= 2
        /\ LastChar(StripDashes(Current)) \in registeredParams_
        /\ LastChar(StripDashes(Current)) \notin DOMAIN params_) =>
           /\ params_' = params_ @@ (LastChar(StripDashes(Current)) :> Follower)
           /\ pos_args_' = pos_args_
           /\ i' = i + 2
      ]_vars

(***************************************************************************)
(* C19: every mode combination is accepted and flags are preferred by      *)
(* default: when the mode holds neither PREFER_FLAG_FOR_UNREG_OPTION nor    *)
(* PREFER_PARAM_FOR_UNREG_OPTION, an unregistered option followed by a     *)
(* non-option token is recorded as a flag and the next token is not        *)
(* consumed, as with PREFER_FLAG_FOR_UNREG_OPTION set.  Stated for the     *)
(* tokens that multi-flag splitting leaves whole.                          *)
(***************************************************************************)
C19_FlagsPreferredByDefault ==
    [][(/\ ValueFollowsCase
        /\ ~HasBit(mode, PREFER_FLAG_FOR_UNREG_OPTION)
        /\ ~HasBit(mode, PREFER_PARAM_FOR_UNREG_OPTION)
        /\ NoMultiFlagCase
        /\ StripDashes(Current) \notin registeredParams_) =>
           /\ flags_' = flags_ (+) SetToBag({StripDashes(Current)})
           /\ params_' = params_ /\ pos_args_' = pos_args_
           /\ i' = i + 1
      ]_vars

\* every token of the argument vector is a name=value token that is split
AllSplit(args) ==
    /\ args # <<>>
    /\ \A k \in DOMAIN args : is_option(args[k]) /\ SplitApplies(args[k])

NameOf(arg) == BeforeEquals(StripDashes(arg))

ValueOf(arg) == AfterEquals(StripDashes(arg))

\* parse has returned and the parameter named by the first token is queried
QueriedFirstName(r) ==
    /\ pc = "done" /\ AllSplit(args_)
    /\ r.op = "param" /\ ~r.threw /\ r.name # <<>>
    /\ StripDashes(r.name) = NameOf(args_[1])
    /\ \A k \in DOMAIN args_ : NameOf(args_[k]) = NameOf(args_[1])

(***************************************************************************)
(* C20, as claimed: when the same parameter name is given more than once   *)
(* in one token sequence, the parameter query for that name returns the    *)
(* value of the last occurrence.  Stated for the sequences made of         *)
(* name=value tokens of one name, where the last occurrence is the last    *)
(* token.                                                                  *)
(***************************************************************************)
C20_LastOccurrenceWins ==
    QueriedFirstName(ret) => ret.str = ValueOf(args_[Len(args_)])

(***************************************************************************)
(* C20, amended: when the same parameter name is given more than once in   *)
(* one token sequence (by name/value pairs, by name=value tokens, or a     *)
(* mix), the parameter query for that name returns the value of the first  *)
(* occurrence: an occurrence of a name that is not stored yet stores its   *)
(* value, no later step changes or removes a stored value, and the query   *)
(* returns the stored value.                                               *)
(***************************************************************************)
C20_FirstOccurrenceWins ==
    [][/\ \A n \in DOMAIN params_ :
            n \in DOMAIN params_' /\ params_'[n] = params_[n]
       /\ (pc = "loop" /\ is_option(Current) /\ SplitApplies(Current)
             /\ NameOf(Current) \notin DOMAIN params_) =>
            /\ NameOf(Current) \in DOMAIN params_'
            /\ params_'[NameOf(Current)] = ValueOf(Current)
       /\ (ValueFollowsCase /\ StripDashes(Current) \notin DOMAIN params_
             /\ \/ StripDashes(Current) \in registeredParams_
                \/ HasBit(mode, PREFER_PARAM_FOR_UNREG_OPTION)) =>
            /\ StripDashes(Current) \in DOMAIN params_'
            /\ params_'[StripDashes(Current)] = Follower
       /\ (ret'.op = "param" /\ ~ret'.threw /\ ret'.name # <<>>) =>
            IF StripDashes(ret'.name) \in DOMAIN params_'
            THEN ~ret'.fail /\ ret'.str = params_'[StripDashes(ret'.name)]
            ELSE ret'.fail
       /\ QueriedFirstName(ret)' => ret'.str = ValueOf(args_'[1])
      ]_vars

\* -x=a -x=1, then cmdl("x"): the text is a
C20_Witness ==
    /\ pc = "done" /\ args_ = <<T_xeqa, T_xeq1>>
    /\ ret.op = "param" /\ ret.name = <<"x">> /\ ret.str = <<"a">>

(***************************************************************************)
(* C21: whenever a parse call has returned, the first call or a later one  *)
(* on the same instance, the positional sequence, the flags and the        *)
(* parameters are exactly those a new instance with the same registered    *)
(* names holds after parsing the token sequence of that call alone.        *)
(***************************************************************************)
C21_ReparseEqualsFreshParse ==
    pc = "done" =>
        LET fresh == fresh_parse(args_, mode, registeredParams_)
        IN  /\ pos_args_ = fresh.pos
            /\ flags_ = fresh.flags
            /\ params_ = fresh.params

\* the places in a list of candidate names that name a parameter
Hits(names) ==
    {k \in 1 .. Len(names) :
        names[k] # <<>> /\ StripDashes(names[k]) \in DOMAIN params_}

FirstHit(names) == CHOOSE k \in Hits(names) : \A j \in Hits(names) : k <= j

ListCall == ret.op \in {"param_list", "param_list_def"}

(***************************************************************************)
(* C22: a parameter query by a list of names returns a good stream with    *)
(* the value of the first name of the list that is a parameter, passing    *)
(* over names that are empty or are no parameter; when no name of the list *)
(* is a parameter the stream is failed, or holds the text of the default   *)
(* when one was given.                                                     *)
(***************************************************************************)
C22_FirstListedNameWins ==
    ListCall =>
        IF Hits(ret.names) # {}
        THEN /\ ~ret.fail
             /\ ret.str = params_[StripDashes(ret.names[FirstHit(ret.names)])]
        ELSE IF ret.op = "param_list"
        THEN ret.fail
        ELSE ~ret.fail /\ ret.str = TextOf(ret.def)

\* both names of the list are parameters with different values, the first
\* listed is not the first that was parsed, and its value is the answer
C22_Witness ==
    /\ ret.op = "param_list"
    /\ ret.names = <<<<"-", "-", "y">>, <<"x">>>>
    /\ args_ = <<T_xeq1, T_yeq2>>
    /\ params_[<<"x">>] # params_[<<"y">>]
    /\ ret.str = <<"2">>
    /\ ret.ok /\ ret.val = 2

\* cmdl(ind, def_val) >> int was called with a default that is an int
PosDefaultCall == ret.op = "pos_stream_def" /\ ret.def.kind = "int"

PosGiven == ret.ind < Len(pos_args_)

SameCall(q, r) ==
    /\ q.op = r.op /\ q.op # "none"
    /\ q.name = r.name /\ q.ind = r.ind /\ q.def = r.def

\* what a call gives back: thrown or not, the flag, the string, the view,
\* the stream's state and text, and the converted value when there is one
SameResult(q, r) ==
    /\ q.threw = r.threw /\ q.flag = r.flag
    /\ q.fail = r.fail /\ q.str = r.str /\ q.view = r.view
    /\ q.ok = r.ok /\ (q.ok => q.val = r.val)

(***************************************************************************)
(* C24: once parse has returned, a call of any accessor (operator[] by     *)
(* name or index, operator() by name or index with or without a default,   *)
(* flags(), params(), pos_args()) leaves the positional sequence, the      *)
(* flags, the parameters and the registered names as they were, and a call *)
(* that repeats the previous call's accessor and arguments gives the same  *)
(* result.                                                                 *)
(***************************************************************************)
C24_AccessorsOnlyRead ==
    [][(pc = "done" /\ pc' = "done") =>
          /\ UNCHANGED <<pos_args_, flags_, params_, registeredParams_>>
          /\ SameCall(ret, ret') => SameResult(ret, ret')]_vars

\* -x a with x registered has been parsed and params() was called
C24_Witness ==
    /\ pc = "done" /\ ret.op = "params"
    /\ ret.view = (<<"x">> :> T_a) /\ params_ = ret.view
    /\ pos_args_ = <<>> /\ registeredParams_ = {<<"x">>}

\* the token is an option: it starts with a dash and is no number
OptionToken(arg) == arg # <<>> /\ Head(arg) = Dash /\ arg \notin NegativeNumbers

\* p is what is left of a after dropping some of its elements
RECURSIVE IsSubsequence(_, _)
IsSubsequence(p, a) ==
    IF p = <<>> THEN TRUE
    ELSE IF a = <<>> THEN FALSE
    ELSE IF Head(p) = Head(a) /\ IsSubsequence(Tail(p), Tail(a)) THEN TRUE
    ELSE IsSubsequence(p, Tail(a))

(***************************************************************************)
(* C25: the positional sequence keeps the input order.  In every iteration *)
(* that parse survives, the current token is appended at the end of the    *)
(* positional sequence when it is no option and the sequence is left alone *)
(* when it is one; the only tokens the loop passes over are non-options    *)
(* taken as the value of the option before them.  So the positional        *)
(* sequence is at all times a subsequence of the tokens read so far,       *)
(* cmdl[k] is its k-th element counted from 0, and cmdl[0] is argv[0] when *)
(* argv[0] is no option.                                                   *)
(***************************************************************************)
C25_PositionalsKeepInputOrder ==
    [][(pc = "loop" /\ pc' \in {"loop", "done"}) =>
          /\ pos_args_' = IF OptionToken(Current) THEN pos_args_
                          ELSE pos_args_ \o <<Current>>
          /\ i' \in {i + 1, i + 2}
          /\ i' = i + 2 => OptionToken(Current) /\ ~OptionToken(Follower)
          /\ IsSubsequence(pos_args_', SubSeq(args_, 1, i'))
          /\ \A k \in 0 .. Len(pos_args_') - 1 : pos_lookup(k)' = pos_args_'[k + 1]
          /\ ~OptionToken(args_[1]) => pos_lookup(0)' = args_[1]
      ]_vars

\* -x a -1 under PREFER_PARAM_FOR_UNREG_OPTION: a is the value of x, and
\* cmdl[0] is -1
C25_Witness ==
    /\ pc = "done" /\ args_ = <<T_x, T_a, T_m1>>
    /\ params_ = (<<"x">> :> T_a)
    /\ pos_args_ = <<T_m1>> /\ pos_lookup(0) = T_m1

\* cmdl(name) >> std::string was called
StringCall == ret.op = "param_string"

IsParam(name) == name # <<>> /\ StripDashes(name) \in DOMAIN params_

(***************************************************************************)
(* C26: a parameter recorded with an empty value is told apart from a name *)
(* that is no parameter by the state of the stream operator()(name)        *)
(* returns: good, with the empty text, for the former, and failed for the  *)
(* latter; extracting a string fails in both cases, and succeeds with the  *)
(* value when the parameter has a value that is not empty.                 *)
(***************************************************************************)
C26_EmptyValueIsPresent ==
    StringCall =>
        /\ ~ret.threw
        /\ IF IsParam(ret.name)
           THEN /\ ~ret.fail
                /\ ret.str = params_[StripDashes(ret.name)]
                /\ ret.ok = (ret.str # <<>>)
                /\ ret.ok => ret.word = ret.str
           ELSE ret.fail /\ ret.str = <<>> /\ ~ret.ok

\* the loop handles the current token as a number: it is appended to the
\* positional sequence and nothing else is recorded
HandledAsPositional ==
    /\ pos_args_' = pos_args_ \o <<Current>>
    /\ flags_' = flags_ /\ params_' = params_ /\ i' = i + 1

\* the option -x is followed by a token of the set and takes values (it is
\* registered, or the mode prefers parameters)
TakesFollowerIn(tokens) ==
    /\ Current = T_x /\ HasFollower /\ Follower \in tokens
    /\ \/ <<"x">> \in registeredParams_
       \/ HasBit(mode, PREFER_PARAM_FOR_UNREG_OPTION)

\* the follower is passed over as the value of x
FollowerIsValue ==
    /\ i' = i + 2 /\ pos_args_' = pos_args_
    /\ <<"x">> \in DOMAIN params_'
    /\ <<"x">> \notin DOMAIN params_ => params_'[<<"x">>] = Follower

\* the tokens that count as numbers by a number in front of them: with any
\* library those that go on with a character no number reader takes up,
\* with a library that stops at the first unfitting character also those
\* that go on with letters
NumberInFront ==
    IF stdlib = "libc++" THEN {T_m1z} ELSE {T_m1z, T_m1abc}

(***************************************************************************)
(* C27 as it is claimed: a token made of '-', a number and then other      *)
(* characters (-1abc, -1z) counts as a number.  As the current token it is *)
(* appended to the positional sequence and recorded nowhere else; after an *)
(* option that takes values it is taken as the value.                      *)
(***************************************************************************)
C27_NumberInFrontIsNumber ==
    [][(pc = "loop" /\ pc' \in {"loop", "done"}) =>
          /\ Current \in {T_m1z, T_m1abc} => HandledAsPositional
          /\ TakesFollowerIn({T_m1z, T_m1abc}) => FollowerIsValue
      ]_vars

(***************************************************************************)
(* C27, amended: a token made of '-', a number and then characters that no *)
(* number can contain in any base or spelling (-1z) counts as a number: as *)
(* the current token it is appended to the positional sequence and         *)
(* recorded nowhere else, and after an option that takes values it is      *)
(* taken as the value.  When the characters after the number are letters   *)
(* among a-f, x, p, i, n (-1abc) this holds with a standard library that   *)
(* stops reading at the first character that does not fit (libstdc++);     *)
(* with libc++ the token is an option and is not appended to the           *)
(* positional sequence.                                                    *)
(***************************************************************************)
C27_NumberInFrontByLibrary ==
    [][(pc = "loop" /\ pc' \in {"loop", "done"}) =>
          /\ Current \in NumberInFront => HandledAsPositional
          /\ TakesFollowerIn(NumberInFront) => FollowerIsValue
          /\ Current \in {T_m1z, T_m1abc} \ NumberInFront =>
                pos_args_' = pos_args_
      ]_vars

\* built with libc++: -1z -x -1z with x taking values gives one positional
\* and the parameter x = -1z
C27_Witness ==
    /\ stdlib = "libc++" /\ pc = "done"
    /\ args_ = <<T_m1z, T_x, T_m1z>>
    /\ pos_args_ = <<T_m1z>> /\ params_ = (<<"x">> :> T_m1z)

StartsWithDash(name) == name # <<>> /\ Head(name) = Dash

(***************************************************************************)
(* C28: every name parse stores is normalized.  For every token sequence,  *)
(* mode and set of registered names, at every point of parse and after it, *)
(* no element of flags() and no key of params() begins with '-', and no    *)
(* element of pos_args() is an option token.                               *)
(***************************************************************************)
C28_StoredNamesAreNormalized ==
    /\ \A name \in BagToSet(flags_) : ~StartsWithDash(name)
    /\ \A name \in DOMAIN params_ : ~StartsWithDash(name)
    /\ \A k \in 1 .. Len(pos_args_) : ~OptionToken(pos_args_[k])

\* both prefer bits are set
BothPreferBits(m) ==
    HasBit(m, PREFER_FLAG_FOR_UNREG_OPTION) /\ HasBit(m, PREFER_PARAM_FOR_UNREG_OPTION)

(***************************************************************************)
(* C29: when the mode has both PREFER_FLAG_FOR_UNREG_OPTION and            *)
(* PREFER_PARAM_FOR_UNREG_OPTION, prefer-param wins: an unregistered       *)
(* option followed by a non-option token is recorded as a parameter with   *)
(* that token as its value, the token is passed over, and no flag is       *)
(* recorded.  Read in the code's favour: tokens that equals-splitting      *)
(* takes first, names that are parameters already, and single-dash tokens  *)
(* under SINGLE_DASH_IS_MULTIFLAG are left out.                            *)
(***************************************************************************)
C29_PreferParamWins ==
    [][(/\ pc = "loop" /\ BothPreferBits(mode)
        /\ OptionToken(Current)
        /\ ~(HasBit(mode, SINGLE_DASH_IS_MULTIFLAG) /\ LeadingDashes(Current) = 1)
        /\ StripDashes(Current) \notin registeredParams_
        /\ ~SplitApplies(Current)
        /\ StripDashes(Current) \notin DOMAIN params_
        /\ HasFollower /\ ~OptionToken(Follower)) =>
          /\ pc' \in {"loop", "done"}
          /\ params_' = params_ @@ (StripDashes(Current) :> Follower)
          /\ flags_' = flags_
          /\ pos_args_' = pos_args_
          /\ i' = i + 2
      ]_vars

\* the iteration reaches the test of the next token
ReadsLookahead ==
    /\ is_option(Current) /\ ~trim_throws(Current)
    /\ ~SplitsOnEquals(mode, trim_leading_dashes(Current))
    /\ i # Len(args_) - 1

(***************************************************************************)
(* C30: the parse loop terminates for every finite token sequence.  An     *)
(* iteration runs only at an index below the number of tokens; it either   *)
(* leaves parse (an exception, a failed assertion) or moves the index up   *)
(* by one or by two, by two only over a token that exists, so no token is  *)
(* the current token twice and the body runs at most argc times, never     *)
(* when argc = 0; the token after the current one is read only when there  *)
(* is one; and once in the loop, the program gets out of it.               *)
(***************************************************************************)
C30_ParseLoopTerminates ==
    /\ [][pc = "loop" =>
            \/ pc' \in {"threw", "aborted"} /\ i' = i
            \/ /\ pc' \in {"loop", "done"}
               /\ i' \in {i + 1, i + 2}
               /\ i' <= Len(args_)
               /\ pc' = "done" <=> i' = Len(args_)
         ]_vars
    /\ [](pc = "loop" => i < Len(args_))
    /\ [](args_ = <<>> => pc # "loop")
    /\ []((pc = "loop" /\ ReadsLookahead) => i + 1 < Len(args_))
    /\ (pc = "loop") ~> (pc # "loop")

\* -x a a with x taking values has been parsed in two iterations
C30_Witness ==
    /\ pc = "done" /\ args_ = <<T_x, T_a, T_a>> /\ i = 3
    /\ params_ = (<<"x">> :> T_a) /\ pos_args_ = <<T_a>>
====
